---- MODULE Spec2Model ----
(***************************************************************************)
(* Item catalog service of src/api/routes/item_routes.js (lines 519-637):  *)
(* create, index, remove, getById, update, add_item_photo,                 *)
(* remove_item_photo and edit_item_photo over a collection of item records *)
(* and a remote blob store.  Every `await` of a handler is one step of the *)
(* process that runs it, so handlers of different requests interleave at   *)
(* their awaits, and every awaited upstream call may fail.                 *)
(***************************************************************************)
EXTENDS Integers, Sequences, FiniteSets, TLC

\* ------------------------------------------------------------- bounds
NumProcs == 2
MaxItems == 1
MaxUrls  == 3
MaxFiles == 2
MaxRequests == 3
MaxListed == 3

Procs == 1..NumProcs
Ids   == 1..MaxItems
Urls  == 1..MaxUrls

\* ------------------------------------------------------------- JS values
Undef  == [t |-> "undefined"]
Num(n) == [t |-> "number", n |-> n]
Str(s) == [t |-> "string", s |-> s]

\* JavaScript truthiness of a scalar: undefined, 0 and "" are falsy.
Truthy(v) == v # Undef /\ v # Num(0) /\ v # Str("")

\* a ?? b: only undefined falls through.
Coalesce(a, b) == IF a # Undef THEN a ELSE b

\* a || b
Or(a, b) == IF Truthy(a) THEN a ELSE b

Scalars == {"name", "ar_name", "description", "price", "discount",
            "sub_category_id", "main_category_id"}

\* ------------------------------------------------------------- state
VARIABLES
    db,        \* the item collection: id -> item record, or NoItem
    blobs,     \* the blob store: url -> content, or NoBlob
    nextId,    \* next _id the persistence layer hands out
    nextUrl,   \* next url the blob store hands out
    pending,   \* saves started but not awaited (add_item_photo)
    started,   \* requests counted so far (interleaved callers only)
    pc,        \* per request: the await it is at
    args,      \* per request: the operation and its arguments
    doc,       \* per request: the document held in `item`
    dirty,     \* per request: modified paths of `item`
    i,         \* per request: position of the for loop
    pre,       \* per request: the record as the handler read it
    log,       \* per request: blob-store and delete calls it completed
    result     \* per request: what the handler returned or threw

vars == <<db, blobs, nextId, nextUrl, pending, started, pc, args, doc, dirty, i, pre,
          log, result>>

NoItem == [t |-> "null"]
NotRead == [t |-> "unread"]
NoBlob == 0
NoArgs == [op |-> "none"]
NoResult == [status |-> "none"]

\* A file of a request is known by its place in the request.
Contents == 1..MaxFiles

\* The specifications differ in the callers (procs), in when a request may
\* start (seq: only with no request and no save in flight; otherwise at any
\* time, MaxRequests of them in a run), in the inputs drawn (which) and in
\* the outcomes of upstream calls (F).
CfgSpec    == [procs |-> Procs, seq |-> FALSE, which |-> "photos", F |-> BOOLEAN]
CfgSeq     == [procs |-> {1},   seq |-> TRUE,  which |-> "photos", F |-> BOOLEAN]
CfgUpdate  == [procs |-> {1},   seq |-> TRUE,  which |-> "fields", F |-> BOOLEAN]
CfgIndex   == [procs |-> {1},   seq |-> TRUE,  which |-> "query",  F |-> BOOLEAN]
CfgOk      == [procs |-> {1},   seq |-> TRUE,  which |-> "photos", F |-> {TRUE}]

\* No request in flight, nothing uploaded.
Quiet ==
    /\ blobs = [u \in Urls |-> NoBlob]
    /\ nextUrl = 1
    /\ pending = {}
    /\ started = 0
    /\ pc = [p \in Procs |-> "idle"]
    /\ args = [p \in Procs |-> NoArgs]
    /\ doc = [p \in Procs |-> NoItem]
    /\ dirty = [p \in Procs |-> {}]
    /\ i = [p \in Procs |-> 0]
    /\ pre = [p \in Procs |-> NotRead]
    /\ log = [p \in Procs |-> <<>>]
    /\ result = [p \in Procs |-> NoResult]

\* An empty collection.
Init ==
    /\ db = [d \in Ids |-> NoItem]
    /\ nextId = 1
    /\ Quiet

\* ------------------------------------------------------------- helpers
\* images[index], 0-based; undefined outside the array
HasImage(images, index) == index + 1 \in DOMAIN images

PushFront(images, url) == <<url>> \o images

\* images.splice(index): everything from index on goes
SpliceRest(images, index) == SubSeq(images, 1, index)

\* images.splice(index, 1)
Splice(images, index) ==
    [k \in 1..(Len(images) - 1) |->
        IF k <= index THEN images[k] ELSE images[k + 1]]

\* images.push(url)
Push(images, url) == Append(images, url)

\* Uploads a request in flight still has to make.
Remaining(p) ==
    CASE pc[p] \in {"create_upload", "add_upload"} ->
             Len(args[p].files) - i[p] + 1
      [] pc[p] \in {"add_find"} -> Len(args[p].files)
      [] pc[p] \in {"eip_find", "rip_find", "rip_delete", "rip_save",
                    "eip_upload"} /\ args[p].op = "edit_item_photo" -> 1
      [] OTHER -> 0

RECURSIVE SumRemaining(_)
SumRemaining(S) ==
    IF S = {} THEN 0
    ELSE LET p == CHOOSE q \in S : TRUE
         IN Remaining(p) + SumRemaining(S \ {p})

\* A request may start when the blob store can still name every url it
\* and the requests in flight will ask for.
UrlsLeft(n) == nextUrl + SumRemaining(Procs) + n <= MaxUrls + 1

MayStart(p, c) ==
    /\ pc[p] = "idle"
    /\ IF c.seq
       THEN /\ \A q \in Procs : pc[q] = "idle"
            /\ pending = {}
       ELSE started < MaxRequests

Start(p, c, a, at) ==
    /\ pc' = [pc EXCEPT ![p] = at]
    /\ args' = [args EXCEPT ![p] = a]
    /\ started' = IF c.seq THEN started ELSE started + 1

Throw(p, status) ==
    /\ pc' = [pc EXCEPT ![p] = "done"]
    /\ result' = [result EXCEPT ![p] = [status |-> status]]

Return(p, val) ==
    /\ pc' = [pc EXCEPT ![p] = "done"]
    /\ result' = [result EXCEPT ![p] = [status |-> "ok", val |-> val]]

Logged(p, e, x) == log' = [log EXCEPT ![p] = Append(@, [e |-> e, x |-> x])]

\* ------------------------------------------------------------- persistence
\* findById
FindById(id) == IF id \in DOMAIN db THEN db[id] ELSE NoItem

\* save() of a document read from the collection: writes the modified
\* paths to the record of that id, later write wins; no record, no write.
Saved(d, paths) ==
    [db EXCEPT ![d.id] =
        [f \in DOMAIN d |-> IF f \in paths THEN d[f] ELSE @[f]]]

CanSave(d) == db[d.id] # NoItem

\* save() of a new document
Inserted(d) == [db EXCEPT ![d.id] = d]

\* ------------------------------------------------------------- blob store
\* saveFileToCloudinary(buffer) -> { url }
Uploaded(content) == [blobs EXCEPT ![nextUrl] = content]

\* deleteFileFromCloudinary(url); deleting a missing blob changes nothing
Deleted(url) == [blobs EXCEPT ![url] = NoBlob]

\* ------------------------------------------------------------- inputs
NoFields == [f \in Scalars |-> Undef]

BaseFields ==
    [name |-> Str("a"), ar_name |-> Undef, description |-> Str("d"),
     price |-> Num(1), discount |-> Undef,
     sub_category_id |-> Str("s1"), main_category_id |-> Str("m1")]

Files(c) ==
    IF c.which = "photos" THEN {[k \in 1..n |-> k] : n \in 0..MaxFiles}
    ELSE {<<>>}

\* An argument of update is omitted, an explicit falsy value (0 for the
\* numbers, "" for the strings) or a truthy value.
Kinds == {"omitted", "falsy", "truthy"}

ArgOf(f, kind) ==
    CASE kind = "omitted" -> Undef
      [] kind = "falsy" -> IF f \in {"price", "discount"} THEN Num(0) ELSE Str("")
      [] OTHER -> IF f \in {"price", "discount"} THEN Num(7) ELSE Str("n")

\* Every field of every kind, alone, in pairs and all at once.
KindVectors ==
    {k \in [Scalars -> Kinds] :
        \/ Cardinality({f \in Scalars : k[f] # "omitted"}) <= 2
        \/ \A f, g \in Scalars : k[f] = k[g]}

UpdateArgs(c) ==
    IF c.which = "fields"
    THEN {[f \in Scalars |-> ArgOf(f, k[f])] : k \in KindVectors}
    ELSE {NoFields, [NoFields EXCEPT !.name = Str("b"), !.price = Num(0)]}

\* Records an update can meet: optional fields absent, zero or set.
StoredFields ==
    {[BaseFields EXCEPT !.ar_name = a, !.discount = d] :
        a \in {Undef, Str("x")}, d \in {Undef, Num(0), Num(3)}}

Prices == {Num(0), Num(1), Num(2)}
Mains == {Str("m1"), Str("m2")}

PriceArgs  == {Undef} \cup Prices
CursorArgs == {Undef} \cup {Num(d) : d \in 1..MaxListed}
LimitArgs  == {Undef, Num(1), Num(2)}

IndexArgs(c) ==
    IF c.which = "query"
    THEN [main_category_id : {Undef, Str("m1")}, sub_category_id : {Undef},
          max_price : PriceArgs, min_price : PriceArgs,
          cursor : CursorArgs, limit : LimitArgs]
    ELSE {[main_category_id |-> Undef, sub_category_id |-> Undef,
           max_price |-> Num(1), min_price |-> Undef,
           cursor |-> Undef, limit |-> Undef]}

PhotoIndexes == 0..MaxFiles

\* new itemModel({ name, ar_name, price, ... }): images starts empty
NewItem(id, fields) ==
    [id |-> id, images |-> <<>>,
     name |-> fields.name, ar_name |-> fields.ar_name,
     description |-> fields.description, price |-> fields.price,
     discount |-> fields.discount,
     sub_category_id |-> fields.sub_category_id,
     main_category_id |-> fields.main_category_id]

\* ------------------------------------------------------------- create
BeginCreate(p, c) ==
    /\ MayStart(p, c)
    /\ nextId <= MaxItems
    /\ \E files \in Files(c) :
         /\ UrlsLeft(Len(files))
         /\ Start(p, c, [op |-> "create", fields |-> BaseFields, files |-> files],
                  IF files = <<>> THEN "create_save" ELSE "create_upload")
    /\ doc' = [doc EXCEPT ![p] = NewItem(nextId, BaseFields)]
    /\ nextId' = nextId + 1
    /\ i' = [i EXCEPT ![p] = 1]
    /\ UNCHANGED <<db, blobs, nextUrl, pending, dirty, pre, log, result>>

CreateUpload(p, c) ==
    /\ pc[p] = "create_upload"
    /\ \E ok \in c.F :
         IF ok
         THEN /\ blobs' = Uploaded(args[p].files[i[p]])
              /\ nextUrl' = nextUrl + 1
              /\ doc' = [doc EXCEPT ![p].images = Push(@, nextUrl)]
              /\ Logged(p, "upload", nextUrl)
              /\ i' = [i EXCEPT ![p] = @ + 1]
              /\ pc' = [pc EXCEPT ![p] = IF i[p] = Len(args[p].files)
                                         THEN "create_save" ELSE @]
              /\ UNCHANGED result
         ELSE /\ Throw(p, "UPSTREAM")
              /\ UNCHANGED <<blobs, nextUrl, doc, log, i>>
    /\ UNCHANGED <<started, db, nextId, pending, args, dirty, pre>>

CreateSave(p, c) ==
    /\ pc[p] = "create_save"
    /\ \E ok \in c.F :
         IF ok
         THEN /\ db' = Inserted(doc[p])
              /\ Return(p, doc[p])
         ELSE /\ Throw(p, "UPSTREAM")
              /\ UNCHANGED db
    /\ UNCHANGED <<started, blobs, nextId, nextUrl, pending, args, doc, dirty, i, pre,
                   log>>

\* ------------------------------------------------------------- index
Matches(it, a) ==
    /\ Truthy(a.main_category_id) => it.main_category_id = a.main_category_id
    /\ Truthy(a.sub_category_id) => it.sub_category_id = a.sub_category_id
    /\ Truthy(a.max_price) => it.price.t = "number" /\ it.price.n <= a.max_price.n
    /\ Truthy(a.min_price) => it.price.t = "number" /\ it.price.n >= a.min_price.n
    /\ Truthy(a.cursor) => it.id > a.cursor.n

\* find(filter): the matching records in ascending id order
RECURSIVE Find(_, _)
Find(a, d) ==
    IF d \notin DOMAIN db THEN <<>>
    ELSE (IF db[d] # NoItem /\ Matches(db[d], a) THEN <<db[d]>> ELSE <<>>)
         \o Find(a, d + 1)

\* .limit(n): the first n, all of them when no limit is given
Limit(s, limit) ==
    IF limit = Undef \/ limit.n >= Len(s) THEN s
    ELSE SubSeq(s, 1, limit.n)

Index(p, c) ==
    /\ MayStart(p, c)
    /\ \E a \in IndexArgs(c) :
         /\ Start(p, c, [op |-> "index", q |-> a], "done")
         /\ \E ok \in c.F :
              result' = [result EXCEPT ![p] =
                  IF ok THEN [status |-> "ok", val |-> Limit(Find(a, 1), a.limit)]
                  ELSE [status |-> "UPSTREAM"]]
    /\ UNCHANGED <<db, blobs, nextId, nextUrl, pending, doc, dirty, i, pre, log>>

\* ------------------------------------------------------------- getById
GetById(p, c) ==
    /\ MayStart(p, c)
    /\ \E id \in Ids :
         /\ Start(p, c, [op |-> "getById", id |-> id], "done")
         /\ \E ok \in c.F :
              /\ pre' = [pre EXCEPT ![p] = IF ok THEN FindById(id) ELSE @]
              /\ result' = [result EXCEPT ![p] =
                     IF ok THEN [status |-> "ok", val |-> FindById(id)]
                     ELSE [status |-> "UPSTREAM"]]
    /\ UNCHANGED <<db, blobs, nextId, nextUrl, pending, doc, dirty, i, log>>

\* ------------------------------------------------------------- remove
BeginRemove(p, c) ==
    /\ MayStart(p, c)
    /\ \E id \in Ids : Start(p, c, [op |-> "remove", id |-> id], "remove_find")
    /\ UNCHANGED <<db, blobs, nextId, nextUrl, pending, doc, dirty, i, pre, log,
                   result>>

\* findByIdAndDelete, then the check of its result
RemoveFind(p, c) ==
    /\ pc[p] = "remove_find"
    /\ \E ok \in c.F :
         LET item == FindById(args[p].id) IN
         IF ~ok
         THEN /\ Throw(p, "UPSTREAM")
              /\ UNCHANGED <<db, doc, pre, i, log>>
         ELSE IF item = NoItem
         THEN /\ Throw(p, "NOT_FOUND")
              /\ pre' = [pre EXCEPT ![p] = item]
              /\ UNCHANGED <<db, doc, i, log>>
         ELSE /\ db' = [db EXCEPT ![args[p].id] = NoItem]
              /\ doc' = [doc EXCEPT ![p] = item]
              /\ pre' = [pre EXCEPT ![p] = item]
              /\ i' = [i EXCEPT ![p] = 1]
              /\ Logged(p, "dbdelete", args[p].id)
              /\ IF item.images = <<>>
                 THEN Return(p, item)
                 ELSE /\ pc' = [pc EXCEPT ![p] = "remove_blobs"]
                      /\ UNCHANGED result
    /\ UNCHANGED <<started, blobs, nextId, nextUrl, pending, args, dirty>>

RemoveBlobsSkip(p, c) ==
    /\ pc[p] = "remove_blobs"
    /\ Return(p, doc[p])
    /\ UNCHANGED <<started, db, blobs, nextId, nextUrl, pending, args, doc, dirty, i,
                   pre, log>>

\* one turn of: for (const image of item.images) await delete(image)
RemoveBlobs(p, c) ==
    /\ pc[p] = "remove_blobs"
    /\ \E ok \in c.F :
         IF ok
         THEN /\ blobs' = Deleted(doc[p].images[i[p]])
              /\ Logged(p, "delete", doc[p].images[i[p]])
              /\ i' = [i EXCEPT ![p] = @ + 1]
              /\ IF i[p] = Len(doc[p].images)
                 THEN Return(p, doc[p])
                 ELSE UNCHANGED <<pc, result>>
         ELSE /\ Throw(p, "UPSTREAM")
              /\ UNCHANGED <<blobs, log, i>>
    /\ UNCHANGED <<started, db, nextId, nextUrl, pending, args, doc, dirty, pre>>

\* ------------------------------------------------------------- update
BeginUpdate(p, c) ==
    /\ MayStart(p, c)
    /\ \E id \in Ids, a \in UpdateArgs(c) :
         Start(p, c, [op |-> "update", id |-> id, fields |-> a], "update_find")
    /\ UNCHANGED <<db, blobs, nextId, nextUrl, pending, doc, dirty, i, pre, log,
                   result>>

\* item.f = f || item.f, for the seven scalar fields
Assigned(item, a) ==
    [f \in DOMAIN item |-> IF f \in Scalars THEN Or(a[f], item[f]) ELSE item[f]]

\* The paths an assignment changed.
Modified(item, new) == {f \in DOMAIN item : new[f] # item[f]}

UpdateFind(p, c) ==
    /\ pc[p] = "update_find"
    /\ \E ok \in c.F :
         LET item == FindById(args[p].id) IN
         IF ~ok
         THEN /\ Throw(p, "UPSTREAM")
              /\ UNCHANGED <<doc, dirty, pre>>
         ELSE IF item = NoItem
         THEN /\ Throw(p, "NOT_FOUND")
              /\ pre' = [pre EXCEPT ![p] = item]
              /\ UNCHANGED <<doc, dirty>>
         ELSE /\ pre' = [pre EXCEPT ![p] = item]
              /\ doc' = [doc EXCEPT ![p] = Assigned(item, args[p].fields)]
              /\ dirty' = [dirty EXCEPT ![p] =
                               Modified(item, Assigned(item, args[p].fields))]
              /\ pc' = [pc EXCEPT ![p] = "update_save"]
              /\ UNCHANGED result
    /\ UNCHANGED <<started, db, blobs, nextId, nextUrl, pending, args, i, log>>

UpdateSave(p, c) ==
    /\ pc[p] = "update_save"
    /\ \E ok \in c.F :
         IF ok /\ CanSave(doc[p])
         THEN /\ db' = Saved(doc[p], dirty[p])
              /\ Return(p, doc[p])
         ELSE /\ Throw(p, "UPSTREAM")
              /\ UNCHANGED db
    /\ UNCHANGED <<started, blobs, nextId, nextUrl, pending, args, doc, dirty, i, pre,
                   log>>

\* ------------------------------------------------------------- add_item_photo
BeginAddItemPhoto(p, c) ==
    /\ MayStart(p, c)
    /\ \E id \in Ids, files \in Files(c) :
         /\ UrlsLeft(Len(files))
         /\ Start(p, c, [op |-> "add_item_photo", id |-> id, files |-> files],
                  "add_find")
    /\ UNCHANGED <<db, blobs, nextId, nextUrl, pending, doc, dirty, i, pre, log,
                   result>>

\* item.save() without await: the save is in flight when the handler returns
SaveStarted(d, paths) == pending \cup {[doc |-> d, paths |-> paths]}

AddFind(p, c) ==
    /\ pc[p] = "add_find"
    /\ \E ok \in c.F :
         LET item == FindById(args[p].id) IN
         IF ~ok
         THEN /\ Throw(p, "UPSTREAM")
              /\ UNCHANGED <<doc, pre, i, pending>>
         ELSE IF item = NoItem
         THEN /\ Throw(p, "NOT_FOUND")
              /\ pre' = [pre EXCEPT ![p] = item]
              /\ UNCHANGED <<doc, i, pending>>
         ELSE /\ pre' = [pre EXCEPT ![p] = item]
              /\ doc' = [doc EXCEPT ![p] = item]
              /\ i' = [i EXCEPT ![p] = 1]
              /\ IF args[p].files = <<>>
                 THEN /\ pending' = SaveStarted(item, {})
                      /\ Return(p, item)
                 ELSE /\ pc' = [pc EXCEPT ![p] = "add_upload"]
                      /\ UNCHANGED <<result, pending>>
    /\ UNCHANGED <<started, db, blobs, nextId, nextUrl, args, dirty, log>>

AddUpload(p, c) ==
    /\ pc[p] = "add_upload"
    /\ \E ok \in c.F :
         IF ok
         THEN LET d == [doc[p] EXCEPT !.images = Push(@, nextUrl)] IN
              /\ blobs' = Uploaded(args[p].files[i[p]])
              /\ nextUrl' = nextUrl + 1
              /\ doc' = [doc EXCEPT ![p] = d]
              /\ Logged(p, "upload", nextUrl)
              /\ i' = [i EXCEPT ![p] = @ + 1]
              /\ IF i[p] = Len(args[p].files)
                 THEN /\ pending' = SaveStarted(d, {"images"})
                      /\ Return(p, d)
                 ELSE UNCHANGED <<pc, result, pending>>
         ELSE /\ Throw(p, "UPSTREAM")
              /\ UNCHANGED <<blobs, nextUrl, doc, log, i, pending>>
    /\ UNCHANGED <<started, db, nextId, args, dirty, pre>>

\* The save add_item_photo started completes, or is rejected unobserved.
SaveLands(c) ==
    \E s \in pending :
      /\ pending' = pending \ {s}
      /\ \E ok \in c.F :
           IF ok /\ CanSave(s.doc)
           THEN db' = Saved(s.doc, s.paths)
           ELSE UNCHANGED db
      /\ UNCHANGED <<started, blobs, nextId, nextUrl, pc, args, doc, dirty, i, pre, log,
                     result>>

\* ------------------------------------------------------------- remove_item_photo
BeginRemoveItemPhoto(p, c) ==
    /\ MayStart(p, c)
    /\ \E id \in Ids, index \in PhotoIndexes :
         Start(p, c, [op |-> "remove_item_photo", id |-> id, index |-> index],
               "rip_find")
    /\ UNCHANGED <<db, blobs, nextId, nextUrl, pending, doc, dirty, i, pre, log,
                   result>>

RipFindUnchecked(p, c) ==
    /\ pc[p] = "rip_find"
    /\ \E ok \in c.F :
         LET item == FindById(args[p].id) IN
         IF ~ok
         THEN /\ Throw(p, "UPSTREAM")
              /\ UNCHANGED <<doc, pre>>
         ELSE IF item = NoItem
         THEN /\ Throw(p, "NOT_FOUND")
              /\ pre' = [pre EXCEPT ![p] = item]
              /\ UNCHANGED doc
         ELSE /\ pre' = [pre EXCEPT ![p] = item]
              /\ doc' = [doc EXCEPT ![p] = item]
              /\ pc' = [pc EXCEPT ![p] = IF HasImage(item.images, args[p].index)
                                         THEN "rip_delete" ELSE "rip_save"]
              /\ UNCHANGED result
    /\ UNCHANGED <<started, db, blobs, nextId, nextUrl, pending, args, dirty, i,
                   log>>

\* findById and the two checks that follow it
RipFind(p, c) ==
    /\ pc[p] = "rip_find"
    /\ \E ok \in c.F :
         LET item == FindById(args[p].id) IN
         IF ~ok
         THEN /\ Throw(p, "UPSTREAM")
              /\ UNCHANGED <<doc, pre>>
         ELSE IF item = NoItem
         THEN /\ Throw(p, "NOT_FOUND")
              /\ pre' = [pre EXCEPT ![p] = item]
              /\ UNCHANGED doc
         ELSE IF ~HasImage(item.images, args[p].index)
         THEN /\ Throw(p, "NOT_FOUND")
              /\ pre' = [pre EXCEPT ![p] = item]
              /\ UNCHANGED doc
         ELSE /\ pre' = [pre EXCEPT ![p] = item]
              /\ doc' = [doc EXCEPT ![p] = item]
              /\ pc' = [pc EXCEPT ![p] = "rip_delete"]
              /\ UNCHANGED result
    /\ UNCHANGED <<started, db, blobs, nextId, nextUrl, pending, args, dirty, i, log>>

\* await deleteFileFromCloudinary(item.images[index]); item.images.splice(index, 1)
RipDelete(p, c) ==
    /\ pc[p] = "rip_delete"
    /\ \E ok \in c.F :
         IF ok
         THEN /\ blobs' = Deleted(doc[p].images[args[p].index + 1])
              /\ Logged(p, "delete", doc[p].images[args[p].index + 1])
              /\ doc' = [doc EXCEPT ![p].images = Splice(@, args[p].index)]
              /\ pc' = [pc EXCEPT ![p] = "rip_save"]
              /\ UNCHANGED result
         ELSE /\ Throw(p, "UPSTREAM")
              /\ UNCHANGED <<blobs, log, doc>>
    /\ UNCHANGED <<started, db, nextId, nextUrl, pending, args, dirty, i, pre>>

\* await item.save(); return item -- to the caller, or to edit_item_photo
RipSave(p, c) ==
    /\ pc[p] = "rip_save"
    /\ \E ok \in c.F :
         IF ok /\ CanSave(doc[p])
         THEN /\ db' = Saved(doc[p], {"images"})
              /\ IF args[p].op = "edit_item_photo"
                 THEN /\ pc' = [pc EXCEPT ![p] = "eip_upload"]
                      /\ UNCHANGED result
                 ELSE Return(p, doc[p])
         ELSE /\ Throw(p, "UPSTREAM")
              /\ UNCHANGED db
    /\ UNCHANGED <<started, blobs, nextId, nextUrl, pending, args, doc, dirty, i, pre,
                   log>>

\* ------------------------------------------------------------- edit_item_photo
BeginEditItemPhoto(p, c) ==
    /\ MayStart(p, c)
    /\ \E id \in Ids, index \in PhotoIndexes, image \in {1} :
         /\ UrlsLeft(1)
         /\ Start(p, c, [op |-> "edit_item_photo", id |-> id, index |-> index,
                      image |-> image], "eip_find")
    /\ UNCHANGED <<db, blobs, nextId, nextUrl, pending, doc, dirty, i, pre, log,
                   result>>

\* let item = await findById(item_id); its result is not looked at
EipFind(p, c) ==
    /\ pc[p] = "eip_find"
    /\ \E ok \in c.F :
         IF ok
         THEN /\ pc' = [pc EXCEPT ![p] = "rip_find"]
              /\ UNCHANGED result
         ELSE Throw(p, "UPSTREAM")
    /\ UNCHANGED <<started, db, blobs, nextId, nextUrl, pending, args, doc, dirty, i, pre,
                   log>>

Insert(images, index, url) ==
    SubSeq(images, 1, index) \o <<url>> \o SubSeq(images, index + 1, Len(images))

EipUploadInPlace(p, c) ==
    /\ pc[p] = "eip_upload"
    /\ \E ok \in c.F :
         IF ok
         THEN /\ blobs' = Uploaded(args[p].image)
              /\ nextUrl' = nextUrl + 1
              /\ doc' = [doc EXCEPT ![p].images = Insert(@, args[p].index, nextUrl)]
              /\ Logged(p, "upload", nextUrl)
              /\ pc' = [pc EXCEPT ![p] = "eip_save"]
              /\ UNCHANGED result
         ELSE /\ Throw(p, "UPSTREAM")
              /\ UNCHANGED <<blobs, nextUrl, doc, log>>
    /\ UNCHANGED <<started, db, nextId, pending, args, dirty, i, pre>>

\* const { url } = await saveFileToCloudinary(image.buffer); item.images.push(url)
EipUpload(p, c) ==
    /\ pc[p] = "eip_upload"
    /\ \E ok \in c.F :
         IF ok
         THEN /\ blobs' = Uploaded(args[p].image)
              /\ nextUrl' = nextUrl + 1
              /\ doc' = [doc EXCEPT ![p].images = Push(@, nextUrl)]
              /\ Logged(p, "upload", nextUrl)
              /\ pc' = [pc EXCEPT ![p] = "eip_save"]
              /\ UNCHANGED result
         ELSE /\ Throw(p, "UPSTREAM")
              /\ UNCHANGED <<blobs, nextUrl, doc, log>>
    /\ UNCHANGED <<started, db, nextId, pending, args, dirty, i, pre>>

EipSave(p, c) ==
    /\ pc[p] = "eip_save"
    /\ \E ok \in c.F :
         IF ok /\ CanSave(doc[p])
         THEN /\ db' = Saved(doc[p], {"images"})
              /\ Return(p, doc[p])
         ELSE /\ Throw(p, "UPSTREAM")
              /\ UNCHANGED db
    /\ UNCHANGED <<started, blobs, nextId, nextUrl, pending, args, doc, dirty, i, pre,
                   log>>

\* ------------------------------------------------------------- requests
\* The caller has the answer; the request is over.
Finish(p) ==
    /\ pc[p] = "done"
    /\ pc' = [pc EXCEPT ![p] = "idle"]
    /\ args' = [args EXCEPT ![p] = NoArgs]
    /\ doc' = [doc EXCEPT ![p] = NoItem]
    /\ dirty' = [dirty EXCEPT ![p] = {}]
    /\ i' = [i EXCEPT ![p] = 0]
    /\ pre' = [pre EXCEPT ![p] = NotRead]
    /\ log' = [log EXCEPT ![p] = <<>>]
    /\ result' = [result EXCEPT ![p] = NoResult]
    /\ UNCHANGED <<started, db, blobs, nextId, nextUrl, pending>>

Step(p, c) ==
    \/ BeginCreate(p, c) \/ CreateUpload(p, c) \/ CreateSave(p, c)
    \/ Index(p, c)
    \/ GetById(p, c)
    \/ BeginRemove(p, c) \/ RemoveFind(p, c) \/ RemoveBlobs(p, c)
    \/ BeginUpdate(p, c) \/ UpdateFind(p, c) \/ UpdateSave(p, c)
    \/ BeginAddItemPhoto(p, c) \/ AddFind(p, c) \/ AddUpload(p, c)
    \/ BeginRemoveItemPhoto(p, c) \/ RipFind(p, c) \/ RipDelete(p, c)
    \/ RipSave(p, c)
    \/ BeginEditItemPhoto(p, c) \/ EipFind(p, c) \/ EipUpload(p, c)
    \/ EipSave(p, c)
    \/ Finish(p)

\* Interleaved requests of any kind, MaxRequests of them.
Next == (\E p \in CfgSpec.procs : Step(p, CfgSpec)) \/ SaveLands(CfgSpec)

Spec == Init /\ [][Next]_vars

\* The same requests, one at a time.
NextSeq == (\E p \in CfgSeq.procs : Step(p, CfgSeq)) \/ SaveLands(CfgSeq)

SpecSeq == Init /\ [][NextSeq]_vars

\* One request at a time, every persistence and blob-store call succeeding.
NextOk == (\E p \in CfgOk.procs : Step(p, CfgOk)) \/ SaveLands(CfgOk)

SpecOk == Init /\ [][NextOk]_vars

\* Updates of one stored item, one at a time.
InitUpdate ==
    /\ \E f \in StoredFields :
         db = [d \in Ids |-> IF d = 1 THEN NewItem(1, f) ELSE NoItem]
    /\ nextId = 2
    /\ Quiet

NextUpdate ==
    \E p \in CfgUpdate.procs :
      \/ BeginUpdate(p, CfgUpdate) \/ UpdateFind(p, CfgUpdate)
      \/ UpdateSave(p, CfgUpdate)
      \/ Finish(p)

SpecUpdate == InitUpdate /\ [][NextUpdate]_vars

\* Queries of a stored catalogue of up to MaxListed items.
Listed(d, price, main) ==
    NewItem(d, [BaseFields EXCEPT !.price = price, !.main_category_id = main])

InitIndex ==
    /\ db \in {[d \in 1..MaxListed |->
                  IF d \in E THEN Listed(d, pr[d], mn[d]) ELSE NoItem] :
                E \in SUBSET (1..MaxListed),
                pr \in [1..MaxListed -> Prices],
                mn \in [1..MaxListed -> Mains]}
    /\ nextId = MaxListed + 1
    /\ Quiet

NextIndex ==
    \E p \in CfgIndex.procs : Index(p, CfgIndex) \/ Finish(p)

SpecIndex == InitIndex /\ [][NextIndex]_vars

\* ------------------------------------------------------------- properties
Done(p, op) == pc[p] = "done" /\ args[p].op = op

Ok(p) == result[p].status = "ok"

\* The stored item a finished request was about.
Stored(p) == db[args[p].id]

\* s without its entry at 0-based position k
Without(s, k) == SubSeq(s, 1, k) \o SubSeq(s, k + 2, Len(s))

\* The urls of a request's calls of one kind, in the order it made them.
RECURSIVE Calls(_, _)
Calls(l, e) ==
    IF l = <<>> THEN <<>>
    ELSE (IF Head(l).e = e THEN <<Head(l).x>> ELSE <<>>) \o Calls(Tail(l), e)

\* What a request read names an image at its index argument.
ReadPhoto(p) ==
    /\ pre[p] \notin {NotRead, NoItem}
    /\ args[p].index < Len(pre[p].images)

\* C1: every url in the images of a stored item names a blob that is in
\* the blob store, in every reachable state.
ImagesHaveBlobs ==
    \A d \in DOMAIN db :
        db[d] # NoItem =>
            \A k \in DOMAIN db[d].images : blobs[db[d].images[k]] # NoBlob

\* C2: getById of an id that has no record signals NOT_FOUND; it does not
\* return a value.
GetByIdSignalsNotFound ==
    \A p \in Procs :
        Done(p, "getById") /\ pre[p] = NoItem =>
            result[p].status = "NOT_FOUND"

\* C3: a create of N files whose uploads and save succeeded leaves a stored
\* item with N images, the k-th the url the upload of the k-th file returned.
CreateImagesInOrder ==
    \A p \in Procs :
        Done(p, "create") /\ Ok(p) =>
            LET item == db[result[p].val.id]
                files == args[p].files
            IN /\ item # NoItem
               /\ Len(item.images) = Len(files)
               /\ item.images = Calls(log[p], "upload")
               /\ \A k \in DOMAIN files : blobs[item.images[k]] = files[k]

CreatedTwoImages ==
    \E p \in Procs :
        /\ Done(p, "create") /\ Ok(p)
        /\ Len(args[p].files) = 2
        /\ Len(db[result[p].val.id].images) = 2

\* C4: after an update of an existing item each of the seven scalar fields
\* holds the argument when the argument is truthy, and its previous value
\* when the argument is omitted or an explicit falsy value.
UpdateKeepsFalsy ==
    \A p \in Procs :
        Done(p, "update") /\ Ok(p) =>
            \A f \in Scalars :
                Stored(p)[f] = IF args[p].fields[f] \in {Undef, Num(0), Str("")}
                               THEN pre[p][f]
                               ELSE args[p].fields[f]

UpdatedWithFalsyAndTruthy ==
    \E p \in Procs :
        /\ Done(p, "update") /\ Ok(p)
        /\ args[p].fields.price = Num(0)
        /\ args[p].fields.name = Str("n")
        /\ Stored(p).price = Num(1)
        /\ Stored(p).name = Str("n")
        /\ pre[p].name = Str("a")

\* C5: a successful remove_item_photo(id, k) leaves the stored images equal
\* to the previous ones without the entry at position k, the others in
\* their order (the entry that was at k+1 is now at k), and the blob of the
\* removed entry is gone.
RemovePhotoShifts ==
    \A p \in Procs :
        Done(p, "remove_item_photo") /\ Ok(p) =>
            LET k == args[p].index IN
            /\ ReadPhoto(p)
            /\ Stored(p).images = Without(pre[p].images, k)
            /\ blobs[pre[p].images[k + 1]] = NoBlob
            /\ \A n \in 1..Len(Stored(p).images) :
                   /\ n <= k => Stored(p).images[n] = pre[p].images[n]
                   /\ n > k => Stored(p).images[n] = pre[p].images[n + 1]

RemovedMiddlePhoto ==
    \E p \in Procs :
        /\ Done(p, "remove_item_photo") /\ Ok(p)
        /\ Len(pre[p].images) = 3
        /\ args[p].index = 1
        /\ Len(Stored(p).images) = 2

\* C6: a successful edit_item_photo(id, k, image) leaves the stored images
\* equal to the previous ones without the entry at k, followed by the url
\* of the uploaded image as the last entry; the old blob at k is gone.
EditPhotoMovesToEnd ==
    \A p \in Procs :
        Done(p, "edit_item_photo") /\ Ok(p) =>
            LET k == args[p].index
                new == Calls(log[p], "upload")
            IN /\ ReadPhoto(p)
               /\ Len(new) = 1
               /\ Stored(p).images = Without(pre[p].images, k) \o new
               /\ blobs[new[1]] = args[p].image
               /\ blobs[pre[p].images[k + 1]] = NoBlob

EditedFirstOfTwo ==
    \E p \in Procs :
        /\ Done(p, "edit_item_photo") /\ Ok(p)
        /\ Len(pre[p].images) = 2
        /\ args[p].index = 0
        /\ Stored(p).images = <<pre[p].images[2], nextUrl - 1>>

\* C7: index returns only items within the price bounds given and with an
\* id above the cursor given, in ascending id order, at most limit of them.
IndexFilters ==
    \A p \in Procs :
        Done(p, "index") /\ Ok(p) =>
            LET r == result[p].val
                q == args[p].q
            IN /\ \A k \in DOMAIN r :
                    /\ q.min_price # Undef => r[k].price.n >= q.min_price.n
                    /\ q.max_price # Undef => r[k].price.n <= q.max_price.n
                    /\ q.cursor # Undef => r[k].id > q.cursor.n
               /\ \A k, n \in DOMAIN r : k < n => r[k].id < r[n].id
               /\ q.limit # Undef => Len(r) <= q.limit.n

\* C8: remove_item_photo and edit_item_photo of an item that does not exist,
\* or that has no image at the index, end in NOT_FOUND with no blob deleted,
\* none uploaded and the stored record as it was.
PhotoNotFound ==
    \A p \in Procs :
        /\ pc[p] = "done"
        /\ args[p].op \in {"remove_item_photo", "edit_item_photo"}
        /\ pre[p] # NotRead
        /\ ~ReadPhoto(p)
        => /\ result[p].status = "NOT_FOUND"
           /\ log[p] = <<>>
           /\ Stored(p) = pre[p]

PhotoIndexOutOfRange ==
    \E p \in Procs :
        /\ Done(p, "edit_item_photo")
        /\ pre[p] \notin {NotRead, NoItem}
        /\ Len(pre[p].images) = 1
        /\ args[p].index = 1
        /\ result[p].status = "NOT_FOUND"

\* C9: when add_item_photo has returned, the stored images are the previous
\* ones followed by the urls of the uploaded files, in input order.
AddPhotoPersisted ==
    \A p \in Procs :
        Done(p, "add_item_photo") /\ Ok(p) =>
            /\ Stored(p) # NoItem
            /\ Stored(p).images = pre[p].images \o Calls(log[p], "upload")

\* C10: remove deletes the record before any blob, then the blobs of its
\* images in their order; once it has succeeded the record and those blobs
\* are gone; of an id with no record it ends in NOT_FOUND with no blob
\* deleted.
RemoveRecordThenBlobs ==
    \A p \in Procs :
        /\ pc[p] = "remove_blobs" =>
              /\ Stored(p) = NoItem
              /\ Calls(log[p], "delete") = SubSeq(pre[p].images, 1, i[p] - 1)
        /\ Done(p, "remove") /\ Ok(p) =>
              /\ pre[p] \notin {NotRead, NoItem}
              /\ Stored(p) = NoItem
              /\ Head(log[p]) = [e |-> "dbdelete", x |-> args[p].id]
              /\ Calls(log[p], "delete") = pre[p].images
              /\ \A k \in DOMAIN pre[p].images : blobs[pre[p].images[k]] = NoBlob
        /\ Done(p, "remove") /\ pre[p] = NoItem =>
              /\ result[p].status = "NOT_FOUND"
              /\ log[p] = <<>>

RemovedItemWithTwoImages ==
    \E p \in Procs :
        /\ Done(p, "remove") /\ Ok(p)
        /\ Len(pre[p].images) = 2
        /\ blobs[pre[p].images[1]] = NoBlob
        /\ blobs[pre[p].images[2]] = NoBlob

\* The urls of the blobs in the store, and those the stored items name.
BlobUrls == {u \in DOMAIN blobs : blobs[u] # NoBlob}

NamedUrls ==
    UNION {{db[d].images[k] : k \in DOMAIN db[d].images} :
              d \in {e \in DOMAIN db : db[e] # NoItem}}

Mutating ==
    {"create", "update", "add_item_photo", "remove_item_photo",
     "edit_item_photo", "remove"}

\* C11: with one operation at a time and every upstream call succeeding,
\* when a create, update, add_item_photo, remove_item_photo,
\* edit_item_photo or remove has completed, the blobs in the store are
\* exactly the urls the stored items name: no orphaned blob, no dangling
\* url.
BlobsMatchImages ==
    \A p \in Procs :
        pc[p] = "done" /\ args[p].op \in Mutating => BlobUrls = NamedUrls

\* The same, add_item_photo left out.
BlobsMatchImagesButAdd ==
    \A p \in Procs :
        pc[p] = "done" /\ args[p].op \in Mutating \ {"add_item_photo"} =>
            BlobUrls = NamedUrls

====
